---- MODULE Spec2Model ----
(***************************************************************************)
(* Model of the couscous audio render pipeline:                            *)
(*   src/couscous/audio/clip.py            Clip                            *)
(*   src/couscous/audio/player/readhead.py ReadHead                        *)
(*   src/couscous/audio/io/mixer.py        Device                          *)
(*                                                                         *)
(* Arithmetic.  Positions, speeds and steps are floats in the source.     *)
(* The model counts a position or a step in 1/Unit samples and a speed in  *)
(* 1/SpeedDen.  A float holds a bounded number of significant digits, so   *)
(* a small value is lost when it is added to a large one; the model keeps  *)
(* that at a reduced precision: a value below one Grid is held exactly, a  *)
(* larger one is rounded to the nearest multiple of Grid (FloatRound).     *)
(* Speeds, rates and whole samples are multiples of Grid, and Unit is a    *)
(* multiple of SpeedDen and of every mixer rate, so that                   *)
(* speed * clip.rate / mixer.rate is exact.                                *)
(***************************************************************************)
EXTENDS Integers, Sequences, FiniteSets, TLC

VARIABLES
    head,     \* the ReadHead under test: its fields, clip included
    last,     \* the last operation applied to head, with its input and result
    reads,    \* sum of mixer.size over every read call made on head
    rd,       \* the read call in flight on the render thread, if any
    mix,      \* the Mixer: its rate and its size (frames per render call)
    heads,    \* the heads registered with the mixer, by registration number
    rendered, \* the last Mixer.render call, with its input and result
    dev,      \* the Device: _stream and the attributes play() reads
    streams,  \* every output stream the Device has opened, in order
    played,   \* the last Device.play call
    cb,       \* the last invocation of a stream's callback
    called    \* the last assignment to Device.device or call of can_start

headVars == <<head, last, reads, rd>>
mixVars == <<mix, heads, rendered>>
devVars == <<dev, streams, played, cb, called>>
vars == <<head, last, reads, rd, mix, heads, rendered, dev, streams, played, cb,
          called>>

----------------------------------------------------------------------------
\* Bounds of the model.

MaxLen == 3        \* clips hold 1..MaxLen samples per channel
MaxSize == 2       \* mixer.size ranges over 1..MaxSize
MaxReads == 3      \* read is taken while the sizes read so far sum to <= MaxReads
SpeedDen == 2      \* speeds are multiples of 1/SpeedDen
Grid == 4          \* float precision: a value of Grid or more keeps no fraction of Grid

Rates == {1, 2}    \* sample rates of clips and mixers (relative units)

\* Least common multiple of the rates.
RateLcm ==
    LET Common(n) == \A r \in Rates : n % r = 0
        Top == 2 * 3 * 4
    IN  CHOOSE n \in 1..Top : Common(n) /\ \A m \in 1..(n - 1) : ~Common(m)

\* Position resolution: one sample is Unit position units.
Unit == SpeedDen * RateLcm * Grid

\* Speeds -1, 1/SpeedDen, 1 and 2, in units of 1/SpeedDen.
Speeds == {-SpeedDen, 1, SpeedDen, 2 * SpeedDen}

ClipChannels == 2

----------------------------------------------------------------------------
\* Python and numpy primitives.

\* Python's x % n on integers, n > 0: exact, in [0, n).
PyIntMod(x, n) == x % n

\* The float nearest to the exact value x: x itself below one Grid, else
\* the nearest multiple of Grid, a tie going to the even multiple.
FloatRound(x) ==
    LET a == IF x >= 0 THEN x ELSE -x
        q == x \div Grid
        r == x % Grid
    IN  IF a < Grid THEN x
        ELSE IF 2 * r < Grid THEN q * Grid
        ELSE IF 2 * r > Grid THEN (q + 1) * Grid
        ELSE IF q % 2 = 0 THEN q * Grid ELSE (q + 1) * Grid

\* C's fmod(x, n), n > 0: exact, with the sign of x.
Fmod(x, n) == IF x >= 0 THEN x % n ELSE -((-x) % n)

\* Python's x % n on floats, n > 0: mod = fmod(x, n), and a negative mod
\* gets n added, a float addition, which rounds.
PyMod(x, n) ==
    LET mod == Fmod(x, n)
    IN  IF mod < 0 THEN FloatRound(mod + n) ELSE mod

\* Python's int(x) of a float: truncation toward zero.  x is in position
\* units, the result in whole samples.
PyInt(x) == IF x >= 0 THEN x \div Unit ELSE -((-x) \div Unit)

\* numpy's a[k] on an axis of n entries accepts -n <= k < n ...
IndexOk(k, n) == -n <= k /\ k < n

\* ... and a negative k counts from the end.  0-based k to a 1-based index.
NumpyIndex(k, n) == IF k >= 0 THEN k + 1 ELSE n + k + 1

----------------------------------------------------------------------------
\* Clip (clip.py)

\* The samples of a loaded clip: the c-th channel holds 10*c+1, 10*c+2, ...
\* so that every sample names its channel and its index and none is 0.
RampData(channels, length) ==
    [c \in 1..channels |-> [i \in 1..length |-> 10 * c + i]]

Clip(rate, channels, length, data) ==
    [rate |-> rate, channels |-> channels, length |-> length, data |-> data]

Clips ==
    {Clip(r, ClipChannels, n, RampData(ClipChannels, n)) :
        r \in Rates, n \in 1..MaxLen}

\* Clip.get_channel: self.data[index], numpy's row indexing.
Clip_get_channel(clip, index) ==
    IF IndexOk(index, clip.channels)
    THEN [raised |-> FALSE, row |-> clip.data[NumpyIndex(index, clip.channels)]]
    ELSE [raised |-> TRUE, row |-> <<>>]

----------------------------------------------------------------------------
\* ReadHead (readhead.py)

\* The constructor with the channel stored as given.
ReadHead_init_RawChannel(clip, channel, position, speed, active) ==
    [frame |-> 0,
     clip |-> clip,
     channel |-> channel,
     position |-> PyMod(position, clip.length * Unit),
     speed |-> speed,
     active |-> active]

\* ReadHead.__init__
ReadHead_init(clip, channel, position, speed, active) ==
    [frame |-> 0,
     clip |-> clip,
     channel |-> PyIntMod(channel, clip.channels),
     position |-> PyMod(position, clip.length * Unit),
     speed |-> speed,
     active |-> active]

\* ReadHead.seek: the head after the call and the value returned.
ReadHead_seek(h, position) ==
    LET h2 == [h EXCEPT !.position = PyMod(position, h.clip.length * Unit)]
    IN  [head |-> h2, ret |-> h2.position]

\* The step of a head played at the speed it was constructed with.
ReadStep_InitialSpeed(h, mixer) ==
    (SpeedDen * h.clip.rate * Unit) \div (SpeedDen * mixer.rate)

\* step = self.speed * self.clip.rate / mixer.rate, in position units.
ReadStep(h, mixer) == (h.speed * h.clip.rate * Unit) \div (SpeedDen * mixer.rate)

\* The loop body with the position advanced whether active or not.
ReadIteration_AlwaysAdvance(h, data, step) ==
    LET k == PyInt(h.position)
    IN  IF h.active /\ ~IndexOk(k, Len(data))
        THEN [raised |-> TRUE, sample |-> 0, head |-> h]
        ELSE [raised |-> FALSE,
              sample |-> IF h.active THEN data[NumpyIndex(k, Len(data))] ELSE 0,
              head |-> [h EXCEPT !.position = FloatRound(@ + step),
                                      !.frame = @ + 1]]

\* One iteration of the loop of ReadHead.read: the sample written to
\* output[i] and the head afterwards.  data[int(self.position)] raises
\* IndexError when the index is outside the row; the iteration then ends
\* before position and frame are touched.
ReadIteration(h, data, step) ==
    IF h.active
    THEN LET k == PyInt(h.position)
         IN  IF IndexOk(k, Len(data))
             THEN [raised |-> FALSE,
                   sample |-> data[NumpyIndex(k, Len(data))],
                   head |-> [h EXCEPT !.position = FloatRound(@ + step),
                                      !.frame = @ + 1]]
             ELSE [raised |-> TRUE, sample |-> 0, head |-> h]
    ELSE [raised |-> FALSE, sample |-> 0, head |-> [h EXCEPT !.frame = @ + 1]]

\* for i in range(mixer.size): ...   out holds output[0..i-1].
RECURSIVE ReadLoop(_, _, _, _, _)
ReadLoop(h, data, step, n, out) ==
    IF n = 0
    THEN [raised |-> FALSE, output |-> out, head |-> h]
    ELSE LET it == ReadIteration(h, data, step)
         IN  IF it.raised
             THEN [raised |-> TRUE, output |-> <<>>, head |-> it.head]
             ELSE ReadLoop(it.head, data, step, n - 1, Append(out, it.sample))

\* ReadHead.read: the buffer returned (none when IndexError propagates) and
\* the head afterwards.  mixer is read for its size and rate only.
ReadHead_read(h, mixer) ==
    LET step == ReadStep(h, mixer)
        ch == Clip_get_channel(h.clip, h.channel)
    IN  IF ch.raised
        THEN [raised |-> TRUE, output |-> <<>>, head |-> h]
        ELSE ReadLoop(h, ch.row, step, mixer.size, <<>>)

----------------------------------------------------------------------------
\* The head driven by its caller: construction, then any sequence of
\* seek, read, and assignments to speed and active.

Mixers == [rate : Rates, size : 1..MaxSize]

\* Positions handed to the constructor and to seek: below -length, negative
\* (by a fraction of a sample, and by less than the float precision at
\* clip.length), in range (whole and fractional), at the end and beyond it.
PositionArgs(clip) ==
    LET L == clip.length * Unit
    IN  {-L - Unit, -Grid, -1, 0, 1, Grid, L - Grid, L, L + Unit + Grid}

ChannelArgs == -1..ClipChannels

\* Rows asked of get_channel: every row, counted from either end, and one
\* beyond each end.
IndexArgs == (-ClipChannels - 1)..ClipChannels

\* No read call in flight.
NoRead == [pc |-> "idle", mixer |-> <<>>, pre |-> <<>>, step |-> 0,
           data |-> <<>>, output |-> <<>>, i |-> 0, sample |-> 0, p |-> 0,
           done |-> 0]

NoOp == [op |-> "init", pre |-> <<>>, arg |-> 0, ret |-> 0, prev |-> 0,
         raised |-> FALSE, output |-> <<>>]

\* The mixer and the device before anything is done with them.
MixIdle ==
    /\ mix = <<>>
    /\ heads = <<>>
    /\ rendered = [pre |-> <<>>, mixer |-> <<>>, raised |-> FALSE,
                   output |-> <<>>]

\* No assignment to Device.device and no can_start call made yet.
NoCall == [op |-> "none", identifier |-> 0, inputFails |-> FALSE,
           outputFails |-> FALSE, pre |-> <<>>, post |-> <<>>,
           raised |-> "none", ret |-> <<>>]

DevIdle ==
    /\ dev = [_stream |-> 0, _device |-> -1, rate |-> 0, channels |-> 0,
              length |-> 0, duplex |-> "unset"]
    /\ called = NoCall
    /\ streams = <<>>
    /\ played = [outcome |-> "none", held |-> 0, peak |-> 0]
    /\ cb = [stream |-> 0, frames |-> 0, channels |-> 0, written |-> {},
             raised |-> FALSE]

Init ==
    /\ MixIdle
    /\ DevIdle
    /\ \E clip \in Clips, channel \in ChannelArgs, active \in BOOLEAN :
         \E position \in PositionArgs(clip) :
            /\ head = ReadHead_init(clip, channel, position, SpeedDen, active)
            /\ last = [NoOp EXCEPT !.arg = channel]
    /\ reads = 0
    /\ rd = NoRead

\* The step the call before this one computed, when that was a read call
\* (0 otherwise).
PrevStep == IF last.op = "read" THEN ReadStep(last.pre, last.arg) ELSE 0

Seek(position) ==
    LET r == ReadHead_seek(head, position)
    IN  /\ head' = r.head
        /\ last' = [op |-> "seek", pre |-> head, prev |-> 0,
                    arg |-> position, ret |-> r.ret, raised |-> FALSE,
                    output |-> <<>>]
        /\ UNCHANGED <<reads, rd, mixVars, devVars>>

Read(mixer) ==
    LET r == ReadHead_read(head, mixer)
    IN  /\ reads + mixer.size <= MaxReads
        /\ head' = r.head
        /\ last' = [op |-> "read", pre |-> head, prev |-> PrevStep,
                    arg |-> mixer, ret |-> 0, raised |-> r.raised,
                    output |-> r.output]
        /\ reads' = reads + mixer.size
        /\ UNCHANGED <<rd, mixVars, devVars>>

\* head.speed = speed
SetSpeed(speed) ==
    /\ head' = [head EXCEPT !.speed = speed]
    /\ last' = [op |-> "speed", pre |-> head, prev |-> 0, arg |-> speed,
                ret |-> 0, raised |-> FALSE, output |-> <<>>]
    /\ UNCHANGED <<reads, rd, mixVars, devVars>>

\* head.active = active
SetActive(active) ==
    /\ head' = [head EXCEPT !.active = active]
    /\ last' = [op |-> "active", pre |-> head, prev |-> 0, arg |-> active,
                ret |-> 0, raised |-> FALSE, output |-> <<>>]
    /\ UNCHANGED <<reads, rd, mixVars, devVars>>

\* head.clip.get_channel(index)
GetChannel(index) ==
    LET r == Clip_get_channel(head.clip, index)
    IN  /\ last' = [op |-> "get_channel", pre |-> head, prev |-> 0,
                    arg |-> index, ret |-> 0, raised |-> r.raised,
                    output |-> r.row]
        /\ UNCHANGED <<head, reads, rd, mixVars, devVars>>

\* The clip of a head asked for its rows.
NextClip == \E index \in IndexArgs : GetChannel(index)

SpecClip == Init /\ [][NextClip]_vars

Next ==
    \/ \E position \in PositionArgs(head.clip) : Seek(position)
    \/ \E mixer \in Mixers : Read(mixer)
    \/ \E speed \in Speeds : SetSpeed(speed)
    \/ \E active \in BOOLEAN : SetActive(active)

Spec == Init /\ [][Next]_vars

----------------------------------------------------------------------------
\* The head shared by two threads.  The render thread runs read one
\* statement at a time; the control thread calls seek and assigns speed and
\* active at any moment.  readhead.py takes no lock, and the interpreter
\* may switch threads between any two statements and between the load and
\* the store of `self.position += step`.

\* What the control thread asks for: a seek to the second sample, double
\* speed, and either value of active.
ControlPositions == {Unit}
ControlSpeeds == {2 * SpeedDen}

\* The mixer of the render thread runs at the rate of the clip.
RenderMixers == {mixer \in Mixers : mixer.rate = 1}

InitConc ==
    /\ MixIdle
    /\ DevIdle
    /\ \E clip \in Clips :
          /\ clip.rate = 1
          /\ head = ReadHead_init(clip, 0, 0, SpeedDen, TRUE)
    /\ last = NoOp
    /\ reads = 0
    /\ rd = NoRead

\* The read call ended: what it returned or raised.
ReadEnded(raised, output) ==
    [op |-> "read", pre |-> rd.pre, prev |-> 0, arg |-> rd.mixer, ret |-> 0,
     raised |-> raised, output |-> output]

\* Lines 88-92: the buffer, the step and the row are taken.
ReadBegin(mixer) ==
    LET ch == Clip_get_channel(head.clip, head.channel)
    IN  /\ rd.pc = "idle"
        /\ reads + mixer.size <= MaxReads
        /\ reads' = reads + mixer.size
        /\ IF ch.raised
           THEN /\ rd' = NoRead
                /\ last' = [ReadEnded(TRUE, <<>>) EXCEPT !.pre = head,
                                                         !.arg = mixer]
           ELSE /\ rd' = [NoRead EXCEPT !.pc = "test", !.mixer = mixer,
                                        !.pre = head,
                                        !.step = ReadStep(head, mixer),
                                        !.data = ch.row]
                /\ last' = last
        /\ UNCHANGED <<head, mixVars, devVars>>

\* Line 95: if self.active
ReadTest ==
    /\ rd.pc = "test"
    /\ rd' = IF head.active
             THEN [rd EXCEPT !.pc = "sample"]
             ELSE [rd EXCEPT !.pc = "frame", !.sample = 0]
    /\ UNCHANGED <<head, last, reads, mixVars, devVars>>

\* Line 96: output[i] = data[int(self.position)]
ReadSample ==
    LET k == PyInt(head.position)
    IN  /\ rd.pc = "sample"
        /\ IF IndexOk(k, Len(rd.data))
           THEN /\ rd' = [rd EXCEPT !.pc = "load",
                             !.sample = rd.data[NumpyIndex(k, Len(rd.data))]]
                /\ last' = last
           ELSE /\ rd' = NoRead
                /\ last' = ReadEnded(TRUE, <<>>)
        /\ UNCHANGED <<head, reads, mixVars, devVars>>

\* Line 97, first half: self.position is loaded.
ReadLoad ==
    /\ rd.pc = "load"
    /\ rd' = [rd EXCEPT !.pc = "store", !.p = head.position]
    /\ UNCHANGED <<head, last, reads, mixVars, devVars>>

\* Line 97, second half: the sum is stored in self.position.
ReadStore ==
    /\ rd.pc = "store"
    /\ head' = [head EXCEPT !.position = FloatRound(rd.p + rd.step)]
    /\ rd' = [rd EXCEPT !.pc = "frame", !.done = @ + 1]
    /\ UNCHANGED <<last, reads, mixVars, devVars>>

\* Line 98: self.frame += 1, and the loop goes on or ends.
ReadFrame ==
    /\ rd.pc = "frame"
    /\ head' = [head EXCEPT !.frame = @ + 1]
    /\ rd' = [rd EXCEPT !.output = Append(@, rd.sample), !.i = @ + 1,
                        !.pc = IF rd.i + 1 = rd.mixer.size
                               THEN "return" ELSE "test"]
    /\ UNCHANGED <<last, reads, mixVars, devVars>>

\* Line 99: return output
ReadReturn ==
    /\ rd.pc = "return"
    /\ last' = ReadEnded(FALSE, rd.output)
    /\ rd' = NoRead
    /\ UNCHANGED <<head, reads, mixVars, devVars>>

NextConc ==
    \/ \E mixer \in RenderMixers : ReadBegin(mixer)
    \/ ReadTest
    \/ ReadSample
    \/ ReadLoad
    \/ ReadStore
    \/ ReadFrame
    \/ ReadReturn
    \/ \E position \in ControlPositions : Seek(position)
    \/ \E speed \in ControlSpeeds : SetSpeed(speed)
    \/ \E active \in BOOLEAN : SetActive(active)

SpecConc == InitConc /\ [][NextConc]_vars

----------------------------------------------------------------------------
\* Mixer.  readhead.py imports Mixer from audio.io.mixer and reads
\* mixer.size and mixer.rate, but no source file defines the class: render
\* is modelled from the specification (section 4.3).

NumHeads == 2      \* heads registered with the mixer

HeadIds == 1..NumHeads

\* Every order in which render may visit the registered heads.
Orders ==
    {o \in [HeadIds -> HeadIds] : \A a, b \in HeadIds : a # b => o[a] # o[b]}

\* A clip whose samples are all 1 (the mixing scenario of section 8).
OnesData(channels, length) ==
    [c \in 1..channels |-> [i \in 1..length |-> 1]]

MixClips ==
    {Clip(2, ClipChannels, MaxLen, RampData(ClipChannels, MaxLen)),
     Clip(2, ClipChannels, MaxLen, OnesData(ClipChannels, MaxLen))}

Silence(size) == [c \in 1..ClipChannels |-> [i \in 1..size |-> 0]]

\* A head's buffer stored over the channel's samples instead of added.
Accumulate_Overwrite(out, channel, buf) ==
    [out EXCEPT ![channel + 1] = buf]

\* "accumulate (sum) its samples into the output channel matching the
\* head's target channel": a straight add.
Accumulate(out, channel, buf) ==
    [out EXCEPT ![channel + 1] = [i \in 1..Len(buf) |-> @[i] + buf[i]]]

\* "for every registered ReadHead, invoke read(self), and accumulate":
\* the heads are visited in the given order; a read that raises ends the
\* call with no buffer.
RECURSIVE RenderLoop(_, _, _, _, _)
RenderLoop(hs, mixer, order, k, out) ==
    IF k > Len(order)
    THEN [raised |-> FALSE, output |-> out, heads |-> hs]
    ELSE LET id == order[k]
             r == ReadHead_read(hs[id], mixer)
             hs2 == [hs EXCEPT ![id] = r.head]
         IN  IF r.raised
             THEN [raised |-> TRUE, output |-> <<>>, heads |-> hs2]
             ELSE RenderLoop(hs2, mixer, order, k + 1,
                             Accumulate(out, hs[id].channel, r.output))

\* Mixer.render(size), size being mixer.size.
Mixer_render(hs, mixer, order) ==
    RenderLoop(hs, mixer, order, 1, Silence(mixer.size))

HeadIdle ==
    /\ head = <<>>
    /\ last = NoOp
    /\ reads = 0
    /\ rd = NoRead

InitMix ==
    /\ HeadIdle
    /\ DevIdle
    /\ mix \in Mixers
    /\ heads \in [HeadIds ->
          {ReadHead_init(clip, channel, position, SpeedDen, active) :
              clip \in MixClips, channel \in 0..(ClipChannels - 1),
              position \in {0}, active \in BOOLEAN}]
    /\ rendered = [pre |-> <<>>, mixer |-> <<>>, raised |-> FALSE,
                   output |-> <<>>]

\* One render call, the heads visited in any one order.
Render(order) ==
    LET r == Mixer_render(heads, mix, order)
    IN  /\ \A id \in HeadIds : heads[id].frame + mix.size <= MaxReads
        /\ heads' = r.heads
        /\ rendered' = [pre |-> heads, mixer |-> mix, raised |-> r.raised,
                        output |-> r.output]
        /\ UNCHANGED <<mix, headVars, devVars>>

NextMix ==
    \E order \in Orders : Render(order)

SpecMix == InitMix /\ [][NextMix]_vars

----------------------------------------------------------------------------
\* Device (mixer.py)

MaxStreams == 3    \* play() is taken while fewer streams have been opened
MaxBlock == 2      \* Device.length (blocksize) ranges over 1..MaxBlock

CHANNEL_COUNTS == {1, 2}
DeviceRates == {44100, 48000}
DeviceIds == {0, 1}

\* Attributes the class only annotates (_device, rate, channels, length)
\* do not exist until the caller assigns them: -1 and 0 stand for "not set".
AttrsSet(d) == d._device # -1 /\ d.rate # 0 /\ d.channels # 0 /\ d.length # 0

OpenCount(strs) == Cardinality({i \in 1..Len(strs) : strs[i].state = "open"})

Max3(a, b, c) ==
    IF a >= b /\ a >= c THEN a ELSE IF b >= c THEN b ELSE c

\* The stream sd.OutputStream(...) returns: open, not yet started, with the
\* callback, channels and blocksize play() passes.
OutputStream(d) ==
    [state |-> "open", active |-> FALSE, callback |-> "play_callback",
     channels |-> d.channels, blocksize |-> d.length]

\* play() without the close of the stream already held.
Device_play_NoClose(d, strs, opens, starts) ==
    IF ~AttrsSet(d)
    THEN [dev |-> d, streams |-> strs, outcome |-> "attribute_error",
          peak |-> OpenCount(strs)]
    ELSE IF ~opens
    THEN [dev |-> d, streams |-> strs, outcome |-> "open_failed",
          peak |-> OpenCount(strs)]
    ELSE LET strs2 == Append(strs, OutputStream(d))
             d2 == [d EXCEPT !._stream = Len(strs2)]
         IN  [dev |-> d2,
              streams |-> [strs2 EXCEPT ![Len(strs2)].active = starts],
              outcome |-> IF starts THEN "started" ELSE "start_failed",
              peak |-> OpenCount(strs2)]

\* Device.play.  opens: sd.OutputStream(...) returns a stream (else it
\* raises PortAudioError); starts: stream.start() succeeds.  The result
\* holds the device and its streams after the call, how the call ended,
\* and the largest number of streams open at any point of the call.
Device_play(d, strs, opens, starts) ==
    LET \* if self._stream: self._stream.close(); self._stream = None
        strs1 == IF d._stream # 0
                 THEN [strs EXCEPT ![d._stream].state = "closed",
                                   ![d._stream].active = FALSE]
                 ELSE strs
        d1 == [d EXCEPT !._stream = 0]
    IN  IF ~AttrsSet(d)
        THEN \* self.device, self.rate, ... raise AttributeError
             [dev |-> d1, streams |-> strs1, outcome |-> "attribute_error",
              peak |-> Max3(OpenCount(strs), OpenCount(strs1), 0)]
        ELSE IF ~opens
        THEN [dev |-> d1, streams |-> strs1, outcome |-> "open_failed",
              peak |-> Max3(OpenCount(strs), OpenCount(strs1), 0)]
        ELSE LET strs2 == Append(strs1, OutputStream(d))
                 d2 == [d1 EXCEPT !._stream = Len(strs2)]
             IN  [dev |-> d2,
                  streams |-> [strs2 EXCEPT ![Len(strs2)].active = starts],
                  outcome |-> IF starts THEN "started" ELSE "start_failed",
                  peak |-> Max3(OpenCount(strs), OpenCount(strs1),
                                OpenCount(strs2))]

\* The frames and channels of the buffer a callback is handed.
Cells(frames, channels) == (1..frames) \X (1..channels)

\* The closure play_callback(device) returns: frame += frames, and nothing
\* is stored in out.
Playback(frames, channels) == [raised |-> FALSE, written |-> {}]

\* What the stream's call callback(out, frames, time, status) does.  play()
\* passes self.play_callback itself, the one-parameter factory, so the call
\* with four arguments raises TypeError before any statement runs; the
\* closure the factory would return is never installed.
InvokeCallback(callback, frames, channels) ==
    IF callback = "play_callback"
    THEN [raised |-> TRUE, written |-> {}]
    ELSE Playback(frames, channels)

InitDev ==
    /\ HeadIdle
    /\ MixIdle
    /\ DevIdle

\* The caller assigns the attributes play() reads.
Configure(device, rate, channels, length) ==
    /\ dev' = [dev EXCEPT !._device = device, !.rate = rate,
                          !.channels = channels, !.length = length]
    /\ UNCHANGED <<streams, played, cb, called, headVars, mixVars>>

Play(opens, starts) ==
    LET r == Device_play(dev, streams, opens, starts)
    IN  /\ Len(streams) < MaxStreams
        /\ dev' = r.dev
        /\ streams' = r.streams
        /\ played' = [outcome |-> r.outcome, held |-> dev._stream,
                      peak |-> r.peak]
        /\ UNCHANGED <<cb, called, headVars, mixVars>>

\* The host audio thread calls the callback of a started stream with a
\* buffer of blocksize frames; an exception in the callback aborts the
\* stream.
StreamCallback(id) ==
    LET st == streams[id]
        r == InvokeCallback(st.callback, st.blocksize, st.channels)
    IN  /\ st.state = "open"
        /\ st.active
        /\ cb' = [stream |-> id, frames |-> st.blocksize,
                  channels |-> st.channels, written |-> r.written,
                  raised |-> r.raised]
        /\ streams' = [streams EXCEPT ![id].active = ~r.raised]
        /\ UNCHANGED <<dev, played, called, headVars, mixVars>>

NextDev ==
    \/ \E device \in DeviceIds, rate \in DeviceRates,
          channels \in CHANNEL_COUNTS, length \in 1..MaxBlock :
            Configure(device, rate, channels, length)
    \/ \E opens \in BOOLEAN, starts \in BOOLEAN : Play(opens, starts)
    \/ \E id \in 1..Len(streams) : StreamCallback(id)

SpecDev == InitDev /\ [][NextDev]_vars

----------------------------------------------------------------------------
\* Device configuration (mixer.py): the device property and can_start.

RecursionLimit == 3   \* calls nested deeper than this raise RecursionError

\* Python's None, as an identifier handed to the device setter.
PyNone == -2

\* What sd.query_devices(identifier) reports for the devices of the host:
\* 0 records and plays, 1 only plays, 2 only records.
Hardware ==
    [id \in {0, 1, 2} |->
        [max_input_channels |-> IF id = 1 THEN 0 ELSE 2,
         max_output_channels |-> IF id = 2 THEN 0 ELSE 2]]

Identifiers == DOMAIN Hardware \cup {PyNone}

\* identifier or 0
OrZero(identifier) ==
    IF identifier = PyNone \/ identifier = 0 THEN 0 ELSE identifier

\* A Python bool stored in an attribute that may also be unset.
PyBool(b) == IF b THEN "True" ELSE "False"

RECURSIVE SetDeviceCall(_, _, _)

\* The setter with duplex stored before the output channels are tested.
SetDeviceCall_DuplexFirst(d, identifier, depth) ==
    IF depth > RecursionLimit
    THEN [dev |-> d, raised |-> "RecursionError"]
    ELSE IF identifier = PyNone
    THEN [dev |-> d, raised |-> "TypeError"]
    ELSE LET info == Hardware[identifier]
             d1 == [d EXCEPT !.duplex = PyBool(info.max_input_channels > 0)]
         IN  IF info.max_output_channels > 0
             THEN SetDeviceCall(d1, OrZero(identifier), depth + 1)
             ELSE [dev |-> d1, raised |-> "ValueError"]

\* One call of the device setter, depth calls deep.  query_devices(None)
\* returns the list of all devices, which info["max_output_channels"]
\* cannot subscript (TypeError).  With output channels the setter stores
\* duplex and then runs `self.device = identifier or 0`, which is the
\* setter again: the nesting ends in RecursionError and _device is never
\* stored.  Without output channels it raises ValueError.
SetDeviceCall(d, identifier, depth) ==
    IF depth > RecursionLimit
    THEN [dev |-> d, raised |-> "RecursionError"]
    ELSE IF identifier = PyNone
    THEN [dev |-> d, raised |-> "TypeError"]
    ELSE LET info == Hardware[identifier]
         IN  IF info.max_output_channels > 0
             THEN SetDeviceCall(
                      [d EXCEPT !.duplex = PyBool(info.max_input_channels > 0)],
                      OrZero(identifier), depth + 1)
             ELSE [dev |-> d, raised |-> "ValueError"]

\* device.device = identifier
Device_set_device(d, identifier) == SetDeviceCall(d, identifier, 1)

\* The attributes both probes of can_start read.
ProbeAttrsSet(d) == d._device # -1 /\ d.channels # 0 /\ d.rate # 0

\* Device.can_start.  inputFails, outputFails: the host refuses the input,
\* the output settings (sd.PortAudioError).  A missing attribute raises
\* AttributeError inside the first try, which catches PortAudioError only.
Device_can_start(d, inputFails, outputFails) ==
    IF ~ProbeAttrsSet(d)
    THEN [raised |-> "AttributeError", ret |-> <<>>]
    ELSE LET can_record == ~inputFails
             can_playback == ~outputFails
         IN  [raised |-> "none", ret |-> <<can_record, can_playback>>]

SetDevice(identifier) ==
    LET r == Device_set_device(dev, identifier)
    IN  /\ dev' = r.dev
        /\ called' = [NoCall EXCEPT !.op = "device", !.identifier = identifier,
                                    !.pre = dev, !.post = r.dev,
                                    !.raised = r.raised]
        /\ UNCHANGED <<streams, played, cb, headVars, mixVars>>

CanStart(inputFails, outputFails) ==
    LET r == Device_can_start(dev, inputFails, outputFails)
    IN  /\ called' = [NoCall EXCEPT !.op = "can_start",
                                    !.inputFails = inputFails,
                                    !.outputFails = outputFails,
                                    !.pre = dev, !.post = dev,
                                    !.raised = r.raised, !.ret = r.ret]
        /\ UNCHANGED <<dev, streams, played, cb, headVars, mixVars>>

NextCfg ==
    \/ \E device \in DeviceIds, rate \in DeviceRates,
          channels \in CHANNEL_COUNTS, length \in 1..MaxBlock :
            Configure(device, rate, channels, length)
    \/ \E identifier \in Identifiers : SetDevice(identifier)
    \/ \E inputFails \in BOOLEAN, outputFails \in BOOLEAN :
          CanStart(inputFails, outputFails)

SpecCfg == InitDev /\ [][NextCfg]_vars

----------------------------------------------------------------------------
\* Properties of ReadHead, stated on the head and on the last operation.

LastSize == last.arg.size
LastStep == ReadStep(last.pre, last.arg)
LengthUnits(h) == h.clip.length * Unit

\* x reduced into [0, n): the r with 0 <= r < n and x - r a multiple of n.
Reduced(x, n) ==
    LET Q == 4 * (MaxReads + MaxSize) + 4
    IN  CHOOSE r \in 0..(n - 1) : \E q \in -Q..Q : x = q * n + r

\* The whole sample below position x (floor, x in position units).
Floor(x) == IF x >= 0 THEN x \div Unit ELSE -((-x + Unit - 1) \div Unit)

\* x and y are equal within the floating tolerance.
Near(x, y) == x - y < Grid /\ y - x < Grid

\* C1: after construction and after every seek, read, speed change and
\* active toggle, 0 <= position < clip.length.
C1_PositionInRange ==
    0 <= head.position /\ head.position < LengthUnits(head)

\* C2: a read call of size n on an Active head starting at p0 leaves
\* position = (p0 + n * speed * clip.rate / mixer.rate) mod clip.length,
\* within the floating tolerance.
C2_PositionAdvanceLaw ==
    (last.op = "read" /\ last.pre.active /\ ~last.raised) =>
        Near(head.position,
             Reduced(last.pre.position + LastSize * LastStep, LengthUnits(head)))

\* C3: a read call on an Active head returns mixer.size samples, the i-th
\* being the channel row at floor((p0 + i * step) mod clip.length), also
\* when the read runs past the end of the clip.
C3_ReadSamplesLoop ==
    (last.op = "read" /\ last.pre.active) =>
        /\ ~last.raised
        /\ Len(last.output) = LastSize
        /\ \A i \in 0..(LastSize - 1) :
              last.output[i + 1] =
                  last.pre.clip.data[last.pre.channel + 1][
                      Floor(Reduced(last.pre.position + i * LastStep,
                                    LengthUnits(last.pre))) + 1]

\* C4: a read call on an Inactive head returns mixer.size zeros, adds
\* mixer.size to frame and changes no other field of the head.
C4_InactiveReadFreezes ==
    (last.op = "read" /\ ~last.pre.active) =>
        /\ ~last.raised
        /\ last.output = [i \in 1..LastSize |-> 0]
        /\ head = [last.pre EXCEPT !.frame = @ + LastSize]

C4_Witness ==
    /\ last.op = "read"
    /\ ~last.pre.active
    /\ LastSize >= 2
    /\ LastStep # 0
    /\ last.pre.position # 0
    /\ head.frame > LastSize

\* C5: seek(p) sets position to p mod clip.length for negative, in-range
\* and overflowing p, returns that value, which lies in [0, clip.length),
\* changes no other field, and seeking to the value returned changes nothing.
C5_SeekNormalizes ==
    last.op = "seek" =>
        /\ Near(head.position, Reduced(last.arg, LengthUnits(head)))
        /\ last.ret = head.position
        /\ 0 <= last.ret /\ last.ret < LengthUnits(head)
        /\ head = [last.pre EXCEPT !.position = head.position]
        /\ ReadHead_seek(head, last.ret) = [head |-> head, ret |-> last.ret]

\* C6: frame starts at 0, is changed by read alone, and equals the sum of
\* mixer.size over the read calls made so far.
C6_FrameCountsReads ==
    /\ head.frame = reads
    /\ last.op \in {"seek", "speed", "active"} => head.frame = last.pre.frame

\* The samples handed to the caller and the head left behind by read(a)
\* followed by read(b): a raise in the first call ends the sequence.
SplitRead(h, rate, a, b) ==
    LET r1 == ReadHead_read(h, [rate |-> rate, size |-> a])
        r2 == ReadHead_read(r1.head, [rate |-> rate, size |-> b])
    IN  IF r1.raised THEN r1
        ELSE [raised |-> r2.raised, output |-> r1.output \o r2.output,
              head |-> r2.head]

\* C7: read(a) then read(b) yields the same samples, position and frame as
\* one read(a + b) from the same state.
C7_SplitReadEqualsSingleRead ==
    \A rate \in Rates, a \in 1..MaxSize, b \in 1..MaxSize :
        SplitRead(head, rate, a, b) =
            ReadHead_read(head, [rate |-> rate, size |-> a + b])

\* The sum over the heads ids of the i-th sample each one's read returns.
RECURSIVE SumSamples(_, _, _, _)
SumSamples(ids, hs, mixer, i) ==
    IF ids = {} THEN 0
    ELSE LET id == CHOOSE x \in ids : TRUE
         IN  ReadHead_read(hs[id], mixer).output[i]
                 + SumSamples(ids \ {id}, hs, mixer, i)

OnChannel(hs, c) == {id \in HeadIds : hs[id].channel = c}

\* C8: render returns, for each channel, the sample-by-sample sum of the
\* buffers read returns for the heads of that channel, whatever the order
\* in which the heads are visited; two heads giving [1,1] sum to [2,2].
C8_RenderSumsHeads ==
    rendered.pre # <<>> =>
        LET P == rendered.pre
            m == rendered.mixer
        IN  /\ rendered.raised = (\E id \in HeadIds : ReadHead_read(P[id], m).raised)
            /\ ~rendered.raised =>
                  \A c \in 0..(ClipChannels - 1), i \in 1..m.size :
                      rendered.output[c + 1][i] = SumSamples(OnChannel(P, c), P, m, i)
            /\ \A o \in Orders :
                  /\ Mixer_render(P, m, o).raised = rendered.raised
                  /\ Mixer_render(P, m, o).output = rendered.output
            /\ \A c \in 0..(ClipChannels - 1) :
                  (/\ ~rendered.raised
                   /\ Cardinality(OnChannel(P, c)) = 2
                   /\ \A id \in OnChannel(P, c) :
                         ReadHead_read(P[id], m).output = <<1, 1>>)
                  => rendered.output[c + 1] = <<2, 2>>

C8_Witness ==
    /\ rendered.pre # <<>>
    /\ ~rendered.raised
    /\ \E c \in 0..(ClipChannels - 1) :
          /\ rendered.output[c + 1] = <<2, 2>>
          /\ Cardinality({id \in OnChannel(rendered.pre, c) :
                 /\ rendered.pre[id].active
                 /\ ReadHead_read(rendered.pre[id], rendered.mixer).output
                        = <<1, 1>>}) = 2

\* C9: every invocation of the callback play() installs writes every
\* frame of every channel of the buffer it is handed before it returns.
C9_CallbackFillsBuffer ==
    cb.stream # 0 =>
        /\ ~cb.raised
        /\ cb.written = Cells(cb.frames, cb.channels)

\* C10: the Device never has more than one open stream, during play() and
\* between calls: play() closes the stream it holds before opening another
\* (also when the opening then fails), and every stream but the one held
\* in _stream is closed.
C10_AtMostOneOpenStream ==
    /\ \A i \in 1..Len(streams) : streams[i].state = "open" => dev._stream = i
    /\ OpenCount(streams) <= 1
    /\ played.peak <= 1
    /\ played.held # 0 => streams[played.held].state = "closed"

C10_Witness ==
    /\ played.outcome = "open_failed"
    /\ played.held = 2
    /\ dev._stream = 0
    /\ Len(streams) = 2
    /\ streams[1].state = "closed"
    /\ streams[2].state = "closed"

\* C11: assigning to Device.device an identifier whose device reports no
\* output channel raises ValueError and leaves the Device (device, duplex
\* and stream) as it was.
C11_NoPlaybackRejected ==
    (/\ called.op = "device"
     /\ called.identifier # PyNone
     /\ Hardware[OrZero(called.identifier)].max_output_channels = 0)
    => /\ called.raised = "ValueError"
       /\ called.post = called.pre

C11_Witness ==
    /\ called.op = "device"
    /\ called.identifier = 2
    /\ called.raised = "ValueError"
    /\ called.pre._device = 1
    /\ called.pre.duplex = "True"
    /\ dev.duplex = "True"

\* C16: assigning to Device.device an identifier whose device reports an
\* output channel ends without error, and then device reads as the
\* identifier (0 for None and 0) and duplex tells whether the device
\* reports an input channel.
C16_PlaybackDeviceStored ==
    (/\ called.op = "device"
     /\ Hardware[OrZero(called.identifier)].max_output_channels > 0)
    => /\ called.raised = "none"
       /\ called.post._device = OrZero(called.identifier)
       /\ called.post.duplex =
              PyBool(Hardware[OrZero(called.identifier)].max_input_channels > 0)

\* C13: can_start returns a pair of booleans whatever the two probes do,
\* raising nothing, and each boolean tells the outcome of its own probe.
C13_CanStartReturnsPair ==
    called.op = "can_start" =>
        /\ called.raised = "none"
        /\ called.ret = <<~called.inputFails, ~called.outputFails>>

\* C12: get_channel(i) returns row i of the data for 0 <= i < channels and
\* raises IndexError for every other i, negative or too large.
C12_GetChannelBounds ==
    last.op = "get_channel" =>
        IF 0 <= last.arg /\ last.arg < last.pre.clip.channels
        THEN ~last.raised /\ last.output = last.pre.clip.data[last.arg + 1]
        ELSE last.raised

\* C15: a read call on an Active head never fails with an index out of
\* range, whatever the speed and the reads before it, and with a negative
\* step every sample is the one at floor(position mod clip.length).
C15_ActiveReadNeverFails ==
    (last.op = "read" /\ last.pre.active) =>
        /\ ~last.raised
        /\ LastStep < 0 =>
              \A i \in 0..(LastSize - 1) :
                  last.output[i + 1] =
                      last.pre.clip.data[last.pre.channel + 1][
                          Floor(Reduced(last.pre.position + i * LastStep,
                                        LengthUnits(last.pre))) + 1]

\* The position after n additions of step, each rounded as a float.
RECURSIVE Advanced(_, _, _)
Advanced(p, step, n) ==
    IF n = 0 THEN p ELSE Advanced(FloatRound(p + step), step, n - 1)

\* C17: a read call advances the position by the step computed from the
\* speed of the head, the rate of the clip and the rate of the mixer as
\* they are at that call, not as they were at an earlier call.
C17_StepComputedPerCall ==
    (last.op = "read" /\ last.pre.active /\ ~last.raised) =>
        head.position =
            Advanced(last.pre.position,
                     (last.pre.speed * last.pre.clip.rate * Unit)
                         \div (SpeedDen * last.arg.rate),
                     LastSize)

C17_Witness ==
    /\ last.op = "read"
    /\ last.pre.active
    /\ ~last.raised
    /\ LastSize >= 2
    /\ last.prev # 0
    /\ last.prev # LastStep
    /\ last.pre.speed # SpeedDen
    /\ head.position = last.pre.position + LastSize * LastStep

\* C18: the constructor stores channel mod clip.channels, no operation
\* changes it afterwards, so 0 <= channel < clip.channels in every state
\* and get_channel(channel) is always a row of the clip.
C18_ChannelInRange ==
    /\ 0 <= head.channel /\ head.channel < head.clip.channels
    /\ last.op = "init" =>
          head.channel = Reduced(last.arg, head.clip.channels)
    /\ last.op # "init" => head.channel = last.pre.channel
    /\ ~Clip_get_channel(head.clip, head.channel).raised
    /\ Clip_get_channel(head.clip, head.channel).row =
          head.clip.data[head.channel + 1]

C18_Witness ==
    /\ last.op = "init"
    /\ last.arg = -1
    /\ head.channel = ClipChannels - 1

\* C14: while a read call is in flight no control operation changes the
\* head: speed and active stay as they were when the call began and the
\* position is the one the call itself has reached; the call returns what
\* it would return running alone, and leaves the head as it would.
C14_ReadIsolated ==
    /\ rd.pc # "idle" =>
          /\ head.speed = rd.pre.speed
          /\ head.active = rd.pre.active
          /\ head.position = Advanced(rd.pre.position, rd.step, rd.done)
    /\ last.op = "read" =>
          LET r == ReadHead_read(last.pre, last.arg)
          IN  /\ last.raised = r.raised
              /\ last.output = r.output
              /\ rd.pc = "idle" => head = r.head

====
